---- MODULE Spec2Model ----
(***************************************************************************)
(* Model of the Discord-Gemini relay bot (src/main.go).                    *)
(*                                                                         *)
(* The process keeps one package-level variable chatSession (main.go:25).  *)
(* discordgo runs every event handler on a goroutine of its own, so        *)
(* messageHandler (main.go:104-223) and interactionHandler /               *)
(* clearChatHistory (main.go:225-249) interleave at every blocking call:   *)
(* http.Get, io.ReadAll, UploadFile, GetFile, time.Sleep, ChannelTyping,   *)
(* SendMessage, ChannelMessageSend, InteractionRespond.  Each action below *)
(* is the code between two such calls.                                     *)
(***************************************************************************)
EXTENDS Integers, Sequences, FiniteSets, TLC

(***************************************************************************)
(* Bounds of the model.                                                    *)
(***************************************************************************)
\* number of message events delivered in one run
MaxMessages == 2
\* number of "clear" command events delivered in one run
MaxCommands == 1
\* number of PROCESSING answers a file gives before it settles
MaxProcessing == 1
\* the longest reply of ReplySpec fills this many chunks
MaxChunks == 3

(***************************************************************************)
(* Strings are sequences of one-character strings, so that HasPrefix,      *)
(* Contains, len and slicing are computed rather than assumed.             *)
(***************************************************************************)
HasPrefix(s, prefix) ==
    /\ Len(s) >= Len(prefix)
    /\ SubSeq(s, 1, Len(prefix)) = prefix

Contains(s, substr) ==
    \E i \in 0..(Len(s) - Len(substr)) : SubSeq(s, i + 1, i + Len(substr)) = substr

s_image == <<"i","m","a","g","e","/">>
s_video == <<"v","i","d","e","o","/">>
s_audio == <<"a","u","d","i","o","/">>
s_pdf == <<"p","d","f">>
s_text == <<"t","e","x","t","/">>
s_application == <<"a","p","p","l","i","c","a","t","i","o","n","/">>

\* a classifier that looks for all six strings at the start only
isSupportedByPrefix(ContentType) ==
    \E p \in {s_image, s_video, s_audio, s_pdf, s_text, s_application} :
        HasPrefix(ContentType, p)

\* main.go:118-123
isSupported(ContentType) ==
    \/ HasPrefix(ContentType, s_image)
    \/ HasPrefix(ContentType, s_video)
    \/ HasPrefix(ContentType, s_audio)
    \/ Contains(ContentType, s_pdf)
    \/ Contains(ContentType, s_text)
    \/ Contains(ContentType, s_application)

(***************************************************************************)
(* Inputs: message events.                                                 *)
(***************************************************************************)
image_png == <<"i","m","a","g","e","/","p","n","g">>
font_ttf == <<"f","o","n","t","/","t","t","f">>
application_zip == <<"a","p","p","l","i","c","a","t","i","o","n","/","z","i","p">>

Attachment(ct) == [ContentType |-> ct]

s_empty == <<>>
s_hi == <<"h","i">>

\* s.State.User.ID and another user's ID
BotID == "bot"
UserID == "user"

Event(author, content, atts) ==
    [Author |-> author, Content |-> content, Attachments |-> atts]

\* the message events a run may deliver
Events ==
    { Event(BotID, s_hi, <<Attachment(image_png)>>),
      Event(UserID, s_empty, <<>>),
      Event(UserID, s_hi, <<>>),
      Event(UserID, s_empty, <<Attachment(font_ttf)>>),
      Event(UserID, s_hi, <<Attachment(image_png)>>),
      Event(UserID, s_empty,
            <<Attachment(image_png), Attachment(font_ttf), Attachment(application_zip)>>) }

(***************************************************************************)
(* The provider: models, sessions, files, responses.                       *)
(***************************************************************************)
ModelName == "gemini-1.5-pro-latest"

\* main.go:59-72
PermissiveSafety ==
    << [Category |-> "HarmCategoryHarassment", Threshold |-> "HarmBlockNone"],
       [Category |-> "HarmCategoryHateSpeech", Threshold |-> "HarmBlockNone"],
       [Category |-> "HarmCategorySexuallyExplicit", Threshold |-> "HarmBlockNone"] >>

\* geminiClient.GenerativeModel(name): a new model value, no safety settings set
GenerativeModel(name) == [name |-> name, SafetySettings |-> <<>>]

\* model.StartChat(): a new session on the model, with an empty history
StartChat(model) == [m |-> model, History |-> <<>>]

\* main.go:56-73: the model main builds and the session it starts
MainModel == [GenerativeModel(ModelName) EXCEPT !.SafetySettings = PermissiveSafety]

\* main.go:236-237: the session clearChatHistory starts
ClearSession == StartChat(GenerativeModel(ModelName))

Text(s) == [kind |-> "text", text |-> s]
FileData(uri) == [kind |-> "file", URI |-> uri]

\* the URI the provider gives to the file uploaded for attachment i of message id
FileURI(id, i) == <<id, i>>

NoContent == [nil |-> TRUE]
Content(ps) == [nil |-> FALSE, Parts |-> ps]

s_ok == <<"o","k">>
s_a == <<"a">>

\* the responses SendMessage may return
Responses ==
    { [Candidates |-> <<>>],
      [Candidates |-> << [Content |-> Content(<<Text(s_a), Text(s_ok)>>)] >> ] }

\* resp before SendMessage has returned one
NoResponse == [Candidates |-> <<>>]

\* what http.Get may do: fail; return a non-2xx response; return a 2xx one
GetOutcomes == {"transport", "status", "ok"}
\* what io.ReadAll of the response's body may do: fail; return the bytes
ReadOutcomes == {"read", "ok"}
\* what the two calls of a download may do
DownloadOutcomes == GetOutcomes \cup ReadOutcomes

\* an uploaded file: whether it ever gets ready, and how many more times it
\* may answer that it is being processed before it must settle
NoFile == [ready |-> TRUE, left |-> 0]

\* what a GetFile call may return: an error, or the file's state
QueryError == [err |-> TRUE, State |-> "none"]
Processing == [err |-> FALSE, State |-> "FileStateProcessing"]
Active == [err |-> FALSE, State |-> "FileStateActive"]

(***************************************************************************)
(* State.                                                                  *)
(***************************************************************************)
\* the goroutines that run messageHandler
Goroutines == {1, 2}

VARIABLES
    chatSession,    \* main.go:25: index into sessions of the current session
    sessions,       \* every ChatSession started so far, in creation order
    arrived,        \* number of message events delivered so far
    pc,             \* pc[g]: the call goroutine g is blocked in
    m,              \* m[g]: the MessageCreate event g handles
    idx,            \* idx[g]: position of the range loop over m.Attachments
    parts,          \* parts[g]: main.go:112
    dl,             \* dl[g]: how the download of attachment idx[g] ended, kept
                    \* while the attachment is read, uploaded and polled
    file,           \* file[g]: behaviour of the file uploaded for attachment idx[g]
    cs,             \* cs[g]: receiver of g's SendMessage call (0: none)
    responseText,   \* responseText[g]: main.go:194
    resp,           \* resp[g]: main.go:185, the response SendMessage returned
    tried,          \* tried[g]: the attachments g issued http.Get for
    active,         \* active[g]: the attachments whose file was reported active
    out,            \* out[g]: what g sent to the channel, in order
    result,         \* result[g]: how g's handling ended
    commands,       \* number of "clear" command events delivered so far
    cmd,            \* the call the interactionHandler goroutine is blocked in
    responds,       \* InteractionRespond calls made so far
    sentBefore      \* ids of the messages whose turn was sent before the last reset

vars == <<chatSession, sessions, arrived, pc, m, idx, parts, dl, file, cs,
          responseText, resp, tried, active, out, result, commands, cmd,
          responds, sentBefore>>

NoMessage == [ID |-> 0, Author |-> UserID, Content |-> s_empty, Attachments |-> <<>>]

Init ==
    /\ sessions = << StartChat(MainModel) >>
    /\ chatSession = 1
    /\ arrived = 0
    /\ pc = [g \in Goroutines |-> "idle"]
    /\ m = [g \in Goroutines |-> NoMessage]
    /\ idx = [g \in Goroutines |-> 0]
    /\ parts = [g \in Goroutines |-> <<>>]
    /\ dl = [g \in Goroutines |-> "none"]
    /\ file = [g \in Goroutines |-> NoFile]
    /\ cs = [g \in Goroutines |-> 0]
    /\ responseText = [g \in Goroutines |-> s_empty]
    /\ resp = [g \in Goroutines |-> NoResponse]
    /\ tried = [g \in Goroutines |-> {}]
    /\ active = [g \in Goroutines |-> {}]
    /\ out = [g \in Goroutines |-> <<>>]
    /\ result = [g \in Goroutines |-> "none"]
    /\ commands = 0
    /\ cmd = "idle"
    /\ responds = 0
    /\ sentBefore = {}

(***************************************************************************)
(* messageHandler, main.go:104-223.                                        *)
(***************************************************************************)
\* a handler that takes no message for its own
IsSelfNever(msg) == FALSE

\* main.go:106
IsSelf(msg) == msg.Author = BotID

\* a handler that puts the text before the references
WithTextFirst(ps, userMessage) ==
    IF userMessage # s_empty THEN <<Text(userMessage)>> \o ps ELSE ps

\* main.go:171-174: the text is appended after the references, if not empty
WithText(ps, userMessage) ==
    IF userMessage # s_empty THEN Append(ps, Text(userMessage)) ELSE ps

\* a handler that sends whatever it has assembled
NoPartsNever(ps) == FALSE

\* main.go:177
NoParts(ps) == Len(ps) = 0

\* main.go:116-125: the first supported attachment at position i or later,
\* 0 when the range loop ends without one
NextSupported(atts, i) ==
    IF \E j \in i..Len(atts) : isSupported(atts[j].ContentType)
    THEN CHOOSE j \in i..Len(atts) :
            /\ isSupported(atts[j].ContentType)
            /\ \A k \in i..(j - 1) : ~isSupported(atts[k].ContentType)
    ELSE 0

\* main.go:130,138,150,158,162: where the range loop resumes after attachment i
Continue(i) == i + 1

\* main.go:116-182 from position i of the range loop with parts ps, up to the
\* next blocking call: http.Get for a supported attachment, or ChannelTyping
\* once the parts are assembled, or the return at line 178
RangeFrom(msg, i, ps) ==
    LET j == NextSupported(msg.Attachments, i)
        all == WithText(ps, msg.Content)
    IN  IF j # 0
        THEN [pc |-> "download", idx |-> j, parts |-> ps, result |-> "none"]
        ELSE IF NoParts(all)
        THEN [pc |-> "done", idx |-> Len(msg.Attachments) + 1, parts |-> all,
              result |-> "empty"]
        ELSE [pc |-> "typing", idx |-> Len(msg.Attachments) + 1, parts |-> all,
              result |-> "none"]

\* the handler reaches r, and the blocking call it stops in is issued
Proceed(g, r) ==
    /\ pc' = [pc EXCEPT ![g] = r.pc]
    /\ idx' = [idx EXCEPT ![g] = r.idx]
    /\ parts' = [parts EXCEPT ![g] = r.parts]
    /\ result' = [result EXCEPT ![g] = r.result]
    /\ tried' = [tried EXCEPT ![g] =
                    IF r.pc = "download" THEN @ \cup {r.idx} ELSE @]
    /\ out' = [out EXCEPT ![g] =
                    IF r.pc = "typing" THEN Append(@, [type |-> "typing"]) ELSE @]

\* the least goroutine free to take an event
Free(g) == pc[g] \in {"idle", "done"}
LeastFree(g) == Free(g) /\ \A k \in Goroutines : Free(k) => g <= k

\* main.go:105-108, then the range loop from its start
Handle(msg) ==
    IF IsSelf(msg)
    THEN [pc |-> "done", idx |-> 0, parts |-> <<>>, result |-> "self"]
    ELSE RangeFrom(msg, 1, <<>>)

\* a MessageCreate event is dispatched to a goroutine: main.go:104-127
MessageCreate(g, e) ==
    /\ arrived < MaxMessages
    /\ LeastFree(g)
    /\ LET msg == [ID |-> arrived + 1, Author |-> e.Author, Content |-> e.Content,
                   Attachments |-> e.Attachments]
           r == Handle(msg)
       IN  /\ m' = [m EXCEPT ![g] = msg]
           /\ pc' = [pc EXCEPT ![g] = r.pc]
           /\ idx' = [idx EXCEPT ![g] = r.idx]
           /\ parts' = [parts EXCEPT ![g] = r.parts]
           /\ result' = [result EXCEPT ![g] = r.result]
           /\ tried' = [tried EXCEPT ![g] =
                           IF r.pc = "download" THEN {r.idx} ELSE {}]
           /\ out' = [out EXCEPT ![g] =
                           IF r.pc = "typing" THEN << [type |-> "typing"] >> ELSE <<>>]
    /\ arrived' = arrived + 1
    /\ dl' = [dl EXCEPT ![g] = "none"]
    /\ file' = [file EXCEPT ![g] = NoFile]
    /\ cs' = [cs EXCEPT ![g] = 0]
    /\ responseText' = [responseText EXCEPT ![g] = s_empty]
    /\ resp' = [resp EXCEPT ![g] = NoResponse]
    /\ active' = [active EXCEPT ![g] = {}]
    /\ UNCHANGED <<chatSession, sessions, commands, cmd, responds, sentBefore>>

\* main.go:127-139: the downloads the handler takes for failed: an error of
\* http.Get or of io.ReadAll; the response's status code is not looked at
DownloadFailed(o) == o \in {"transport", "read"}

\* http.Get returns for attachment idx[g]; without an error, io.ReadAll is
\* called on the body: main.go:127-135
Download(g, o) ==
    /\ pc[g] = "download"
    /\ IF DownloadFailed(o)
       THEN /\ Proceed(g, RangeFrom(m[g], Continue(idx[g]), parts[g]))
            /\ UNCHANGED dl
       ELSE /\ pc' = [pc EXCEPT ![g] = "read"]
            /\ dl' = [dl EXCEPT ![g] = o]
            /\ UNCHANGED <<idx, parts, result, tried, out>>
    /\ UNCHANGED <<chatSession, sessions, arrived, m, file, cs, responseText, resp,
                   active, commands, cmd, responds, sentBefore>>

\* io.ReadAll returns; without an error, UploadFile is called with the bytes,
\* whatever the status of the response they came with: main.go:135-147
ReadAll(g, o) ==
    /\ pc[g] = "read"
    /\ IF DownloadFailed(o)
       THEN /\ Proceed(g, RangeFrom(m[g], Continue(idx[g]), parts[g]))
            /\ dl' = [dl EXCEPT ![g] = "none"]
       ELSE /\ pc' = [pc EXCEPT ![g] = "upload"]
            /\ UNCHANGED <<dl, idx, parts, result, tried, out>>
    /\ UNCHANGED <<chatSession, sessions, arrived, m, file, cs, responseText, resp,
                   active, commands, cmd, responds, sentBefore>>

\* UploadFile returns an error: main.go:147-151
UploadFails(g) ==
    /\ pc[g] = "upload"
    /\ Proceed(g, RangeFrom(m[g], Continue(idx[g]), parts[g]))
    /\ dl' = [dl EXCEPT ![g] = "none"]
    /\ UNCHANGED <<chatSession, sessions, arrived, m, file, cs, responseText, resp,
                   active, commands, cmd, responds, sentBefore>>

\* UploadFile returns a file and the first GetFile is issued: main.go:147-155
Upload(g, ready) ==
    /\ pc[g] = "upload"
    /\ file' = [file EXCEPT ![g] =
                    [ready |-> ready, left |-> IF ready THEN MaxProcessing ELSE 0]]
    /\ pc' = [pc EXCEPT ![g] = "poll"]
    /\ UNCHANGED <<chatSession, sessions, arrived, m, idx, parts, dl, cs, responseText,
                   resp, tried, active, out, result, commands, cmd, responds,
                   sentBefore>>

\* the answers GetFile may give for file f: a file that never gets ready is
\* never active and its query never fails; another file is processed at most
\* f.left more times
GetFile(f) ==
    IF ~f.ready THEN {Processing}
    ELSE {QueryError, Active} \cup (IF f.left > 0 THEN {Processing} ELSE {})

\* main.go:160-162: the reference is appended when the file is active
WithFile(ps, fileStatus, uri) ==
    IF fileStatus.State = "FileStateActive" THEN Append(ps, FileData(uri)) ELSE ps

\* a poll loop that ends at the first answer
PollEndsAlways(fileStatus) == TRUE

\* main.go:156-163: the poll loop ends on a query error or on the active state
PollEnds(fileStatus) == fileStatus.err \/ fileStatus.State = "FileStateActive"

\* GetFile returns: main.go:155-165
Poll(g, fileStatus) ==
    /\ pc[g] = "poll"
    /\ fileStatus \in GetFile(file[g])
    /\ IF PollEnds(fileStatus)
       THEN /\ Proceed(g, RangeFrom(m[g], Continue(idx[g]),
                          IF fileStatus.err THEN parts[g]
                          ELSE WithFile(parts[g], fileStatus, FileURI(m[g].ID, idx[g]))))
            /\ file' = [file EXCEPT ![g] = NoFile]
            /\ dl' = [dl EXCEPT ![g] = "none"]
            /\ active' = [active EXCEPT ![g] =
                            IF fileStatus = Active THEN @ \cup {idx[g]} ELSE @]
       ELSE /\ pc' = [pc EXCEPT ![g] = "sleep"]
            /\ file' = [file EXCEPT ![g].left = IF @ > 0 THEN @ - 1 ELSE 0]
            /\ UNCHANGED <<idx, parts, result, tried, active, out, dl>>
    /\ UNCHANGED <<chatSession, sessions, arrived, m, cs, responseText, resp,
                   commands, cmd, responds, sentBefore>>

\* time.Sleep returns and GetFile is issued again: main.go:165,154-155
Sleep(g) ==
    /\ pc[g] = "sleep"
    /\ pc' = [pc EXCEPT ![g] = "poll"]
    /\ UNCHANGED <<chatSession, sessions, arrived, m, idx, parts, dl, file, cs,
                   responseText, resp, tried, active, out, result, commands, cmd,
                   responds, sentBefore>>

(***************************************************************************)
(* The provider round trip and the reply, main.go:184-222.                 *)
(***************************************************************************)
\* a handler that keeps calling the session main started, the first of all
ReceiverOfMain == CHOOSE k \in DOMAIN sessions : \A j \in DOMAIN sessions : k <= j

\* main.go:185: the session whose SendMessage is called is the one the
\* package variable names when the call is made
Receiver == chatSession

\* an entry of a session's history: the content of message id's turn, or the
\* provider's reply to it (the contents themselves are parts[g] and the response)
UserContent(id) == [Role |-> "user", msg |-> id]
ModelContent(id) == [Role |-> "model", msg |-> id]

\* a SendMessage that starts the history over
ReplaceHistory(ss, k, c) == [ss EXCEPT ![k].History = <<c>>]

\* ChatSession.SendMessage appends the user's content to the history of its
\* receiver before it calls the provider
AppendHistory(ss, k, c) == [ss EXCEPT ![k].History = Append(@, c)]

\* ChatSession.SendMessage adds the first candidate's content, if any, to the
\* history of its receiver when the provider has answered
AddToHistory(ss, k, id, response) ==
    IF Len(response.Candidates) > 0 /\ ~response.Candidates[1].Content.nil
    THEN AppendHistory(ss, k, ModelContent(id))
    ELSE ss

\* a handler that waits for the handlers of the messages that arrived before
\* its own to have made their call
CanSendInArrivalOrder(g) ==
    /\ pc[g] = "typing"
    /\ \A h \in Goroutines :
          (m[h].ID > 0 /\ m[h].ID < m[g].ID) =>
              pc[h] \notin {"download", "read", "upload", "poll", "sleep", "typing"}

\* main.go:182-185: the handler calls SendMessage as soon as ChannelTyping has
\* returned; no lock, queue or channel orders it among the handlers
CanSend(g) == pc[g] = "typing"

\* ChannelTyping returns; chatSession.SendMessage is called: main.go:182-185
SendMessage(g) ==
    /\ CanSend(g)
    /\ cs' = [cs EXCEPT ![g] = Receiver]
    /\ sessions' = AppendHistory(sessions, Receiver, UserContent(m[g].ID))
    /\ pc' = [pc EXCEPT ![g] = "sending"]
    /\ UNCHANGED <<chatSession, arrived, m, idx, parts, dl, file, responseText, resp,
                   tried, active, out, result, commands, cmd, responds, sentBefore>>

\* the failure details SendMessage may return
Errors == {"quota"}

\* a handler that does not return after the error notice
OnSendErrorNoReturn(sent, err) ==
    sent \o << [type |-> "error", detail |-> err], [type |-> "fallback"] >>

\* main.go:186-190: what is sent when SendMessage fails
OnSendError(sent, err) == Append(sent, [type |-> "error", detail |-> err])

\* SendMessage returns an error and ChannelMessageSend is called with the
\* error notice: main.go:185-188
SendFails(g, err) ==
    /\ pc[g] = "sending"
    /\ out' = [out EXCEPT ![g] = OnSendError(@, err)]
    /\ pc' = [pc EXCEPT ![g] = "notice"]
    /\ result' = [result EXCEPT ![g] = "error"]
    /\ UNCHANGED <<chatSession, sessions, arrived, m, idx, parts, dl, file, cs,
                   responseText, resp, tried, active, commands, cmd, responds, sentBefore>>

\* fmt.Sprintf("%v", part) of a text part is the text
Sprint(part) == part.text

RECURSIVE ConcatParts(_)
ConcatParts(ps) ==
    IF ps = <<>> THEN s_empty ELSE Sprint(Head(ps)) \o ConcatParts(Tail(ps))

\* only resp.Candidates[0] is read
ResponseTextFirst(cands) ==
    IF cands = <<>> \/ Head(cands).Content.nil THEN s_empty
    ELSE ConcatParts(Head(cands).Content.Parts)

\* main.go:194-201
RECURSIVE ResponseText(_)
ResponseText(cands) ==
    IF cands = <<>> THEN s_empty
    ELSE (IF Head(cands).Content.nil THEN s_empty
          ELSE ConcatParts(Head(cands).Content.Parts)) \o ResponseText(Tail(cands))

\* main.go:208
chunkSize == 2000

\* main.go:208-211
ChunkLen(text) == IF Len(text) < chunkSize THEN Len(text) ELSE chunkSize

\* main.go:214: responseText[:chunkSize]
Chunk(text) == SubSeq(text, 1, ChunkLen(text))

\* responseText[chunkSize+1:]
RestSkipsOne(text) == SubSeq(text, ChunkLen(text) + 2, Len(text))

\* main.go:218: responseText[chunkSize:]
Rest(text) == SubSeq(text, ChunkLen(text) + 1, Len(text))

\* SendMessage returns a response and ChannelMessageSend is called with the
\* first chunk, or with the fallback notice: main.go:185-215, 220-221
SendReturns(g, response) ==
    /\ pc[g] = "sending"
    /\ resp' = [resp EXCEPT ![g] = response]
    /\ sessions' = AddToHistory(sessions, cs[g], m[g].ID, response)
    /\ LET text == ResponseText(response.Candidates)
       IN  /\ responseText' = [responseText EXCEPT ![g] = text]
           /\ IF text # s_empty
              THEN /\ out' = [out EXCEPT ![g] =
                                Append(@, [type |-> "chunk", text |-> Chunk(text)])]
                   /\ pc' = [pc EXCEPT ![g] = "chunk"]
                   /\ UNCHANGED result
              ELSE /\ out' = [out EXCEPT ![g] = Append(@, [type |-> "fallback"])]
                   /\ pc' = [pc EXCEPT ![g] = "notice"]
                   /\ result' = [result EXCEPT ![g] = "fallback"]
    /\ UNCHANGED <<chatSession, arrived, m, idx, parts, dl, file, cs, tried, active,
                   commands, cmd, responds, sentBefore>>

\* ChannelMessageSend returns for a chunk: main.go:215-219, 206-215
ChunkSent(g) ==
    /\ pc[g] = "chunk"
    /\ LET rest == Rest(responseText[g])
       IN  /\ responseText' = [responseText EXCEPT ![g] = rest]
           /\ IF Len(rest) > 0
              THEN /\ out' = [out EXCEPT ![g] =
                                Append(@, [type |-> "chunk", text |-> Chunk(rest)])]
                   /\ UNCHANGED <<pc, result>>
              ELSE /\ pc' = [pc EXCEPT ![g] = "done"]
                   /\ result' = [result EXCEPT ![g] = "chunks"]
                   /\ UNCHANGED out
    /\ UNCHANGED <<chatSession, sessions, arrived, m, idx, parts, dl, file, cs,
                   resp, tried, active, commands, cmd, responds, sentBefore>>

\* ChannelMessageSend returns for the error notice or the fallback notice,
\* and the handler returns: main.go:188-190, 221-223
NoticeSent(g) ==
    /\ pc[g] = "notice"
    /\ pc' = [pc EXCEPT ![g] = "done"]
    /\ UNCHANGED <<chatSession, sessions, arrived, m, idx, parts, dl, file, cs,
                   responseText, resp, tried, active, out, result, commands, cmd,
                   responds, sentBefore>>

(***************************************************************************)
(* interactionHandler and clearChatHistory, main.go:225-249.               *)
(***************************************************************************)
CommandNames == {"clear", "other"}

\* the ids of the messages whose turn is in some session's history
RECURSIVE SentIn(_)
SentIn(hist) ==
    IF hist = <<>> THEN {}
    ELSE (IF Head(hist).Role = "user" THEN {Head(hist).msg} ELSE {}) \cup SentIn(Tail(hist))

Sent == UNION {SentIn(sessions[k].History) : k \in DOMAIN sessions}

\* main.go:236-237: the sessions after clearChatHistory has started a new one
Restarted(ss) == Append(ss, ClearSession)

\* a clearChatHistory whose new session never reaches the package variable
ReassignedLocal(ss) == chatSession

\* main.go:237: the session chatSession names after the assignment
Reassigned(ss) == Len(ss)

\* an interactionHandler that does not look at the command's name
IsClearAny(name) == TRUE

\* main.go:226-231: the commands interactionHandler passes to clearChatHistory
IsClear(name) == name = "clear"

\* an application command arrives: main.go:225-245, up to InteractionRespond;
\* a command of another name returns at once
InteractionCreate(name) ==
    /\ cmd = "idle"
    /\ IF IsClear(name)
       THEN /\ commands < MaxCommands
            /\ commands' = commands + 1
            /\ sessions' = Restarted(sessions)
            /\ chatSession' = Reassigned(sessions')
            /\ sentBefore' = Sent
            /\ cmd' = "respond"
            /\ responds' = responds + 1
       ELSE UNCHANGED <<sessions, chatSession, sentBefore, cmd, responds, commands>>
    /\ UNCHANGED <<arrived, pc, m, idx, parts, dl, file, cs, responseText, resp, tried,
                   active, out, result>>

\* InteractionRespond returns, with or without an error, which is logged;
\* clearChatHistory and interactionHandler return: main.go:240-249
Responded(err) ==
    /\ cmd = "respond"
    /\ cmd' = "idle"
    /\ UNCHANGED <<chatSession, sessions, arrived, pc, m, idx, parts, dl, file, cs,
                   responseText, resp, tried, active, out, result, commands,
                   responds, sentBefore>>

(***************************************************************************)
(* The system.                                                             *)
(***************************************************************************)
Step(g) ==
    \/ \E o \in GetOutcomes : Download(g, o)
    \/ \E o \in ReadOutcomes : ReadAll(g, o)
    \/ UploadFails(g)
    \/ \E ready \in BOOLEAN : Upload(g, ready)
    \/ \E fileStatus \in {QueryError, Processing, Active} : Poll(g, fileStatus)
    \/ Sleep(g)
    \/ SendMessage(g)
    \/ \E err \in Errors : SendFails(g, err)
    \/ \E response \in Responses : SendReturns(g, response)
    \/ ChunkSent(g)
    \/ NoticeSent(g)

Next ==
    \/ \E g \in Goroutines, e \in Events : MessageCreate(g, e)
    \/ \E g \in Goroutines : Step(g)
    \/ \E name \in CommandNames : InteractionCreate(name)
    \/ \E err \in BOOLEAN : Responded(err)

Spec == Init /\ [][Next]_vars

\* every goroutine that can run is eventually scheduled, and every call that
\* is modelled as returning returns
FairSpec == Spec /\ \A g \in Goroutines : WF_vars(Step(g))

(***************************************************************************)
(* The reply path alone: main.go:185-222 under replies of every shape and  *)
(* of lengths around the chunk size.  One goroutine takes text messages,   *)
(* sends them, and the provider answers with any of ReplyResponses.        *)
(***************************************************************************)
\* a text of n bytes; len and the slice expressions of main.go:206-218 count
\* bytes, so the elements of a text are its bytes
Letters == <<"a", "b", "c", "d", "e", "f", "g">>
LongText(n) == [i \in 1..n |-> Letters[(i % 7) + 1]]

\* reply lengths below, at and above the multiples of chunkSize
ReplyLengths ==
    {1, 4500, MaxChunks * chunkSize} \cup
    UNION { {k * chunkSize - 1, k * chunkSize, k * chunkSize + 1} :
            k \in 1..(MaxChunks - 1) }

\* the contents a candidate may carry: none, no part, one or two text parts
ReplyTexts == {s_empty, s_a, s_ok}
ReplyContents ==
    {NoContent, Content(<<>>)} \cup
    {Content(<<Text(s)>>) : s \in ReplyTexts} \cup
    {Content(<<Text(s), Text(t)>>) : s \in ReplyTexts, t \in ReplyTexts}

\* genai.GenerateContentResponse values: zero to two candidates of any content,
\* and one candidate whose text is long
ReplyResponses ==
    { [Candidates |-> <<>>] } \cup
    { [Candidates |-> << [Content |-> c] >>] : c \in ReplyContents } \cup
    { [Candidates |-> << [Content |-> c], [Content |-> d] >>] :
        c \in ReplyContents, d \in ReplyContents } \cup
    { [Candidates |-> << [Content |-> Content(<<Text(LongText(n))>>)] >>] :
        n \in ReplyLengths } \cup
    { [Candidates |-> << [Content |-> Content(<<Text(LongText(1500)),
                                                Text(LongText(3000))>>)] >>] }

ReplyNext ==
    \/ MessageCreate(1, Event(UserID, s_hi, <<>>))
    \/ SendMessage(1)
    \/ \E response \in ReplyResponses : SendReturns(1, response)
    \/ ChunkSent(1)
    \/ NoticeSent(1)

ReplySpec == Init /\ [][ReplyNext]_vars

(***************************************************************************)
(* The classifier alone: main.go:116-125 under media types that begin      *)
(* with, contain, or nearly contain the six strings it looks for.  One     *)
(* goroutine takes messages of one attachment and no text.                 *)
(***************************************************************************)
MediaTypes ==
    { <<"i","m","a","g","e","/","p","n","g">>,   \* "image/png"
      <<"i","m","a","g","e","/">>,   \* "image/"
      <<"v","i","d","e","o","/","m","p","4">>,   \* "video/mp4"
      <<"a","u","d","i","o","/","o","g","g">>,   \* "audio/ogg"
      <<"a","p","p","l","i","c","a","t","i","o","n","/","z","i","p">>,   \* "application/zip"
      <<"a","p","p","l","i","c","a","t","i","o","n","/","p","d","f">>,   \* "application/pdf"
      <<"t","e","x","t","/","p","l","a","i","n">>,   \* "text/plain"
      <<"f","o","n","t","/","t","t","f">>,   \* "font/ttf"
      <<>>,   \* ""
      <<"x","i","m","a","g","e","/","p","n","g">>,   \* "ximage/png"
      <<"m","y","v","i","d","e","o","/","m","p","4">>,   \* "myvideo/mp4"
      <<"x","-","a","u","d","i","o","/","o","g","g">>,   \* "x-audio/ogg"
      <<"x","/","p","d","f">>,   \* "x/pdf"
      <<"p","d","f">>,   \* "pdf"
      <<"x","-","t","e","x","t","/","y">>,   \* "x-text/y"
      <<"t","e","x","t">>,   \* "text"
      <<"a","p","p","l","i","c","a","t","i","o","n">>,   \* "application"
      <<"m","u","l","t","i","p","a","r","t","/","a","p","p","l","i","c","a","t","i","o","n","/","x">>,   \* "multipart/application/x"
      <<"I","m","a","g","e","/","p","n","g">>,   \* "Image/png"
      <<"i","m","a","g","e">>,   \* "image"
      <<"p","d","/","f">>,   \* "pd/f"
      <<"m","o","d","e","l","/","o","b","j">> }   \* "model/obj"

ClassifyEvents == { Event(UserID, s_empty, <<Attachment(ct)>>) : ct \in MediaTypes }

ClassifyNext ==
    \/ \E e \in ClassifyEvents : MessageCreate(1, e)
    \/ Step(1)

ClassifySpec == Init /\ [][ClassifyNext]_vars

(***************************************************************************)
(* One handling from its event to its end: main.go:104-223 in one          *)
(* goroutine, under every event of Events and, besides Responses, a reply  *)
(* of several chunks; every call that is modelled as returning returns.    *)
(***************************************************************************)
LongResponse == [Candidates |-> << [Content |-> Content(<<Text(LongText(4500))>>)] >>]

HandlingStep ==
    \/ Step(1)
    \/ SendReturns(1, LongResponse)

HandlingNext ==
    \/ \E e \in Events : MessageCreate(1, e)
    \/ HandlingStep

HandlingSpec == Init /\ [][HandlingNext]_vars /\ WF_vars(HandlingStep)

(***************************************************************************)
(* Vocabulary of the properties.                                           *)
(***************************************************************************)
\* the positions of the supported attachments of msg
Supported(msg) ==
    {i \in 1..Len(msg.Attachments) : isSupported(msg.Attachments[i].ContentType)}

\* the references of the attachments act of message id among the first n, in
\* the order of the attachments
RECURSIVE References(_, _, _)
References(id, act, n) ==
    IF n = 0 THEN <<>>
    ELSE References(id, act, n - 1) \o
         (IF n \in act THEN <<FileData(FileURI(id, n))>> ELSE <<>>)

\* the turn a message is to give: the references of the attachments that got
\* ready, in order, then the text if there is one
Expected(msg, act) ==
    References(msg.ID, act, Len(msg.Attachments)) \o
    (IF msg.Content # s_empty THEN <<Text(msg.Content)>> ELSE <<>>)

IsUser(c) == c.Role = "user"
\* the turns held by a history
Turns(hist) == SelectSeq(hist, IsUser)

\* the number of turns of message id in hist
RECURSIVE CountIn(_, _)
CountIn(hist, id) ==
    IF hist = <<>> THEN 0
    ELSE (IF Head(hist).Role = "user" /\ Head(hist).msg = id THEN 1 ELSE 0)
         + CountIn(Tail(hist), id)

\* the number of turns of message id in the histories of the first n sessions
RECURSIVE TurnsSent(_, _)
TurnsSent(id, n) ==
    IF n = 0 THEN 0 ELSE CountIn(sessions[n].History, id) + TurnsSent(id, n - 1)

\* the handler of g has left the range loop and assembled its parts
Assembled(g) ==
    \/ pc[g] \in {"typing", "sending", "chunk", "notice"}
    \/ pc[g] = "done" /\ result[g] # "self"

\* the handler of g has called SendMessage
Called(g) == cs[g] # 0

IsFileData(p) == p.kind = "file"
\* the references among parts, in order
RefsOf(ps) == SelectSeq(ps, IsFileData)

IsMessage(o) == o.type # "typing"
\* the messages among what was sent to the channel
MessagesOf(sent) == SelectSeq(sent, IsMessage)

(***************************************************************************)
(* C1.  A message with text and a supported attachment whose file never    *)
(* gets ready (and whose status query never fails) still gets its turn,    *)
(* with the text part, sent to the provider.                               *)
(* Stated as written; the handler polls for ever (main.go:154-166).        *)
(***************************************************************************)
C1_SlowAttachmentDoesNotStall ==
    \A g \in Goroutines :
        (pc[g] = "poll" /\ ~file[g].ready /\ m[g].Content # s_empty)
            ~> (Called(g) /\ \E i \in DOMAIN parts[g] : parts[g][i] = Text(m[g].Content))

(***************************************************************************)
(* C2.  An attachment that fails at download, upload or status query gives *)
(* no reference; every later attachment is still processed; the turn is    *)
(* exactly the references of the attachments that succeeded, plus the text *)
(* if it is not empty.                                                     *)
(* Stated as written: a download that was answered with a non-success      *)
(* status has failed.  The handler does not look at the status             *)
(* (main.go:127-131), so such an attachment can give a reference.          *)
(***************************************************************************)
C2_AttachmentFailureIsNotFatal ==
    /\ [](\A g \in Goroutines :
             /\ pc[g] \in {"download", "read", "upload", "poll", "sleep"} =>
                   /\ parts[g] = References(m[g].ID, active[g], Len(m[g].Attachments))
                   /\ idx[g] \notin active[g]
             /\ Assembled(g) =>
                   /\ tried[g] = Supported(m[g])
                   /\ parts[g] = Expected(m[g], active[g])
             /\ Called(g) => parts[g] = Expected(m[g], active[g]))
    /\ [][ \A g \in Goroutines :
             (m'[g] = m[g] /\ parts'[g] # parts[g]
                           /\ RefsOf(parts'[g]) # RefsOf(parts[g])) =>
                 dl[g] = "ok"
         ]_vars

(***************************************************************************)
(* C3.  After a reset, the session that is current holds the turns sent    *)
(* since the reset and no other: none of the turns sent before the reset,  *)
(* and exactly one turn once one turn has been sent.                       *)
(***************************************************************************)
C3_ResetThenSendIsOneTurn ==
    commands > 0 =>
        LET turns == Turns(sessions[chatSession].History)
            since == Sent \ sentBefore
        IN  /\ \A i \in DOMAIN turns : turns[i].msg \notin sentBefore
            /\ {turns[i].msg : i \in DOMAIN turns} = since
            /\ Len(turns) = Cardinality(since)

\* turns were sent before the reset, and one turn since
C3_Witness ==
    /\ commands > 0
    /\ sentBefore # {}
    /\ Len(Turns(sessions[chatSession].History)) = 1
    /\ Cardinality(Sent \ sentBefore) = 1

(***************************************************************************)
(* C4.  No turn is in flight against, or added to, a session other than    *)
(* the current one.                                                        *)
(* Stated as written; a reset during a SendMessage call leaves the call    *)
(* running on the session that was replaced (main.go:185, 237).            *)
(***************************************************************************)
C4_OnlyTheCurrentSessionReceivesTurns ==
    \A g \in Goroutines : pc[g] = "sending" => cs[g] = chatSession

(***************************************************************************)
(* C5.  Every session that is current was started on the fixed model with  *)
(* the fixed permissive safety settings.                                   *)
(* Stated as written; clearChatHistory starts its session on a model it    *)
(* has just built, whose safety settings were never set (main.go:236-237). *)
(***************************************************************************)
C5_CurrentSessionKeepsSafetySettings ==
    /\ sessions[chatSession].m.name = ModelName
    /\ sessions[chatSession].m.SafetySettings = PermissiveSafety

(***************************************************************************)
(* C6.  A download that fails, by a transport failure or by a non-success  *)
(* HTTP status, is not followed by an upload of that attachment.           *)
(* Stated as written; the status of the response is never looked at        *)
(* (main.go:127-131).                                                      *)
(***************************************************************************)
C6_FailedDownloadIsNotUploaded ==
    \A g \in Goroutines :
        dl[g] \in {"transport", "status", "read"} => pc[g] # "upload"

(***************************************************************************)
(* C7.  A message that is not discarded has exactly one turn sent, never   *)
(* more, and the turn is the references of the attachments that got ready, *)
(* in the order of the attachments, followed by the text if and only if    *)
(* the text is not empty.  A discarded message has none.                   *)
(***************************************************************************)
C7_OneTurnInOrder ==
    \A g \in Goroutines :
        LET n == TurnsSent(m[g].ID, Len(sessions))
        IN  /\ n <= 1
            /\ n = 1 <=> Called(g)
            /\ Called(g) =>
                  /\ parts[g] = Expected(m[g], active[g])
                  /\ parts[g] # <<>>
            /\ pc[g] = "done" =>
                  (result[g] \in {"self", "empty"} <=> n = 0)

\* a turn of one reference followed by the text; and the turn of the message
\* "hi" with no attachment
C7_Witness ==
    /\ \E g \in Goroutines :
          /\ pc[g] = "done"
          /\ TurnsSent(m[g].ID, Len(sessions)) = 1
          /\ parts[g] = <<FileData(FileURI(m[g].ID, 1)), Text(s_hi)>>
    /\ \E g \in Goroutines :
          /\ Called(g)
          /\ m[g].Attachments = <<>>
          /\ parts[g] = <<Text(s_hi)>>

(***************************************************************************)
(* C8.  A message with no text and no attachment that gave a reference     *)
(* causes no provider call and nothing sent to the channel, not even the   *)
(* typing indicator, and no session's history holds a turn of it.          *)
(***************************************************************************)
C8_EmptyMessageIsSilent ==
    \A g \in Goroutines :
        /\ (m[g].Author # BotID /\ m[g].Content = s_empty /\ active[g] = {}) =>
              /\ out[g] = <<>>
              /\ ~Called(g)
              /\ TurnsSent(m[g].ID, Len(sessions)) = 0
              /\ pc[g] \in {"idle", "download", "read", "upload", "poll", "sleep", "done"}
              /\ pc[g] = "done" => result[g] = "empty"
        /\ result[g] = "empty" => m[g].Content = s_empty /\ active[g] = {}

\* every supported attachment of a message without text failed
C8_Witness ==
    \E g \in Goroutines :
        /\ result[g] = "empty"
        /\ Cardinality(tried[g]) = 2
        /\ active[g] = {}

(***************************************************************************)
(* C9.  A message of the bot itself causes no download, no upload, no      *)
(* provider call and nothing sent to the channel.                          *)
(***************************************************************************)
C9_SelfMessageIsDiscarded ==
    \A g \in Goroutines :
        m[g].Author = BotID =>
            /\ pc[g] = "done"
            /\ result[g] = "self"
            /\ tried[g] = {}
            /\ active[g] = {}
            /\ parts[g] = <<>>
            /\ out[g] = <<>>
            /\ ~Called(g)
            /\ TurnsSent(m[g].ID, Len(sessions)) = 0

\* a message of the bot with text and a supported attachment was handled
C9_Witness ==
    \E g \in Goroutines :
        /\ m[g].Author = BotID
        /\ m[g].Content # s_empty
        /\ Supported(m[g]) # {}
        /\ pc[g] = "done"

(***************************************************************************)
(* C10.  When the provider call fails, one message is sent to the channel, *)
(* the error notice with the failure detail, and the handling is over: no  *)
(* chunk, no fallback notice, no second provider call.                     *)
(***************************************************************************)
C10_ProviderErrorGivesOneNotice ==
    \A g \in Goroutines :
        result[g] = "error" =>
            /\ pc[g] \in {"notice", "done"}
            /\ Len(MessagesOf(out[g])) = 1
            /\ MessagesOf(out[g])[1].type = "error"
            /\ MessagesOf(out[g])[1].detail \in Errors
            /\ TurnsSent(m[g].ID, Len(sessions)) = 1

\* a provider call failed
C10_Witness ==
    \E g \in Goroutines :
        /\ result[g] = "error"
        /\ Called(g)
        /\ Len(out[g]) = 2

\* the text parts of a candidate, in the provider's order
PartTexts(c) ==
    IF c.Content.nil THEN <<>>
    ELSE [i \in 1..Len(c.Content.Parts) |-> c.Content.Parts[i].text]

\* the textual segments of candidates, in the provider's order
RECURSIVE Segments(_)
Segments(cands) ==
    IF cands = <<>> THEN <<>> ELSE PartTexts(Head(cands)) \o Segments(Tail(cands))

RECURSIVE Join(_)
Join(texts) == IF texts = <<>> THEN <<>> ELSE Head(texts) \o Join(Tail(texts))

\* the reply a response stands for
ReplyOf(response) == Join(Segments(response.Candidates))

IsChunk(o) == o.type = "chunk"
\* the texts of the chunks among what was sent to the channel, in send order
ChunksOf(sent) ==
    LET cks == SelectSeq(sent, IsChunk) IN [k \in 1..Len(cks) |-> cks[k].text]

(***************************************************************************)
(* C11.  The chunks sent for a reply s are consecutive substrings of s, in *)
(* order: chunk k starts where chunk k-1 ended, each chunk is non-empty    *)
(* and at most 2000 long, every chunk but the last is exactly 2000 long,   *)
(* and once the handling is over the chunks joined in send order are s     *)
(* (4500 gives 2000, 2000, 500).  Lengths are those of len(): bytes.       *)
(***************************************************************************)
C11_ChunksRoundTrip ==
    \A g \in Goroutines :
        LET s == ReplyOf(resp[g])
            chunks == ChunksOf(out[g])
        IN  /\ \A k \in DOMAIN chunks :
                  /\ Len(chunks[k]) >= 1
                  /\ Len(chunks[k]) <= 2000
                  /\ chunks[k] = SubSeq(s, 2000 * (k - 1) + 1,
                                           2000 * (k - 1) + Len(chunks[k]))
                  /\ k < Len(chunks) => Len(chunks[k]) = 2000
            /\ (pc[g] = "chunk" /\ Len(chunks) * 2000 >= Len(s)) =>
                  Join(chunks) = s
            /\ (pc[g] = "done" /\ s # s_empty) => Join(chunks) = s

\* a reply of 4500 was sent as chunks of 2000, 2000 and 500
C11_Witness ==
    \E g \in Goroutines :
        /\ pc[g] = "done"
        /\ result[g] = "chunks"
        /\ Len(ReplyOf(resp[g])) = 4500
        /\ Len(ChunksOf(out[g])) = 3
        /\ Len(ChunksOf(out[g])[1]) = 2000
        /\ Len(ChunksOf(out[g])[2]) = 2000
        /\ Len(ChunksOf(out[g])[3]) = 500

(***************************************************************************)
(* C12.  When the provider call succeeds, the reply text is the texts of   *)
(* all parts of all candidates joined in the provider's order.  If it is   *)
(* empty, one message is sent to the channel, the fallback notice, and no  *)
(* chunk.  If it is not empty, only chunks are sent, and no fallback       *)
(* notice.                                                                 *)
(***************************************************************************)
C12_ReplyIsAllSegmentsOrFallback ==
    \A g \in Goroutines :
        (Called(g) /\ pc[g] \in {"chunk", "notice", "done"} /\ result[g] # "error") =>
            LET s == ReplyOf(resp[g])
                msgs == MessagesOf(out[g])
            IN  IF s = s_empty
                THEN /\ pc[g] \in {"notice", "done"}
                     /\ result[g] = "fallback"
                     /\ msgs = << [type |-> "fallback"] >>
                ELSE /\ msgs # <<>>
                     /\ \A k \in DOMAIN msgs : msgs[k].type = "chunk"
                     /\ Len(msgs) = 1 /\ pc[g] = "chunk" => responseText[g] = s
                     /\ pc[g] = "done" =>
                           /\ result[g] = "chunks"
                           /\ Join(ChunksOf(out[g])) = s

\* a reply made of two candidates of two parts each was sent whole
C12_Witness ==
    \E g \in Goroutines :
        /\ pc[g] = "done"
        /\ result[g] = "chunks"
        /\ Len(resp[g].Candidates) = 2
        /\ \A k \in 1..2 : /\ ~resp[g].Candidates[k].Content.nil
                           /\ Len(resp[g].Candidates[k].Content.Parts) = 2
        /\ Join(ChunksOf(out[g])) = s_a \o s_ok \o s_ok \o s_a

(***************************************************************************)
(* C13.  A "clear" command replaces the current session by a session that  *)
(* did not exist, with an empty history, by the time its one confirmation  *)
(* reply is issued; when that reply returns, failed or not, nothing is     *)
(* retried and the reset stays; nothing else issues a confirmation reply;  *)
(* a command of another name changes nothing and sends nothing.            *)
(***************************************************************************)
C13_ClearResetsThenConfirmsOnce ==
    [][ /\ \A name \in CommandNames \ {"clear"} :
              InteractionCreate(name) => UNCHANGED vars
        /\ InteractionCreate("clear") =>
              /\ chatSession' \notin DOMAIN sessions
              /\ chatSession' \in DOMAIN sessions'
              /\ sessions'[chatSession'].History = <<>>
              /\ SubSeq(sessions', 1, Len(sessions)) = sessions
              /\ responds' = responds + 1
              /\ cmd' = "respond"
        /\ responds' # responds =>
              /\ cmd = "idle" /\ cmd' = "respond"
              /\ commands' = commands + 1
              /\ responds' = commands'
              /\ chatSession' # chatSession
        /\ cmd = "respond" =>
              /\ responds' = responds
              /\ chatSession' = chatSession
              /\ Len(sessions') = Len(sessions)
      ]_vars

\* a clear command was handled and its confirmation reply has returned
C13_Witness ==
    /\ commands = 1
    /\ responds = 1
    /\ cmd = "idle"
    /\ chatSession = 2
    /\ sessions[2].History = <<>>

\* the strings the claim lists
MediaPrefixes ==
    { <<"i","m","a","g","e","/">>, <<"v","i","d","e","o","/">>,
      <<"a","u","d","i","o","/">> }
MediaSubstrings ==
    { <<"p","d","f">>, <<"t","e","x","t","/">>,
      <<"a","p","p","l","i","c","a","t","i","o","n","/">> }

\* p occurs in s from position k on
OccursAt(s, p, k) ==
    /\ k + Len(p) - 1 <= Len(s)
    /\ \A i \in 1..Len(p) : s[k + i - 1] = p[i]

Qualifies(ct) ==
    \/ \E p \in MediaPrefixes : OccursAt(ct, p, 1)
    \/ \E p \in MediaSubstrings : \E k \in 1..Len(ct) : OccursAt(ct, p, k)

(***************************************************************************)
(* C14.  A media type is supported iff it starts with "image/", "video/"   *)
(* or "audio/", or contains "pdf", "text/" or "application/"; and the      *)
(* handler issues a download for an attachment iff its media type is so.   *)
(***************************************************************************)
C14_GateIsTheClassifier ==
    \A g \in Goroutines : \A i \in DOMAIN m[g].Attachments :
        LET ct == m[g].Attachments[i].ContentType
        IN  /\ isSupported(ct) <=> Qualifies(ct)
            /\ (m[g].Author # BotID /\ i <= idx[g]) =>
                  (i \in tried[g] <=> Qualifies(ct))

\* an attachment whose type has "pdf" but not at its start was downloaded
C14_Witness ==
    \E g \in Goroutines :
        /\ m[g].Attachments = <<Attachment(<<"x","/","p","d","f">>)>>
        /\ tried[g] = {1}
        /\ pc[g] = "upload"

\* h is g or g with entries appended
IsPrefix(g, h) == Len(g) <= Len(h) /\ SubSeq(h, 1, Len(g)) = g

(***************************************************************************)
(* C15.  The current session changes only in the step where a "clear"      *)
(* command resets it.  A step of a message handler leaves the current      *)
(* session and the set of sessions as they are, and changes no session     *)
(* but by appending to its history.                                        *)
(***************************************************************************)
C15_OnlyClearReplacesTheSession ==
    [][ /\ chatSession' # chatSession =>
              /\ cmd = "idle" /\ cmd' = "respond"
              /\ commands' = commands + 1
              /\ pc' = pc /\ m' = m /\ out' = out
        /\ (pc' # pc \/ m' # m \/ out' # out) =>
              /\ chatSession' = chatSession
              /\ DOMAIN sessions' = DOMAIN sessions
              /\ \A k \in DOMAIN sessions :
                    /\ sessions'[k].m = sessions[k].m
                    /\ IsPrefix(sessions[k].History, sessions'[k].History)
      ]_vars

\* two messages were handled, one answered in chunks and one with the error
\* notice, and the session main started is still the current one
C15_Witness ==
    /\ chatSession = 1
    /\ Len(sessions) = 1
    /\ \E g, h \in Goroutines :
          /\ pc[g] = "done" /\ result[g] = "chunks"
          /\ pc[h] = "done" /\ result[h] = "error"
    /\ Len(Turns(sessions[1].History)) = 2

\* where the handshake of g's current attachment stands, and what g's turn
\* holds of it
Handshake(g) ==
    /\ tried[g] \subseteq Supported(m[g])
    /\ active[g] \subseteq tried[g]
    /\ pc[g] = "download" => idx[g] \in tried[g]
    /\ pc[g] = "read" =>
          /\ idx[g] \in tried[g]
          /\ dl[g] \in GetOutcomes \ {"transport"}
    /\ pc[g] = "upload" =>
          /\ idx[g] \in tried[g]
          /\ dl[g] = "ok"
    /\ pc[g] \in {"poll", "sleep"} =>
          /\ idx[g] \in tried[g]
          /\ idx[g] \notin active[g]
          /\ dl[g] = "ok"
    /\ \A j \in DOMAIN RefsOf(parts[g]) :
          /\ \E i \in active[g] : RefsOf(parts[g])[j].URI = FileURI(m[g].ID, i)
          /\ \A k \in DOMAIN RefsOf(parts[g]) :
                RefsOf(parts[g])[k] = RefsOf(parts[g])[j] => k = j
    /\ Len(RefsOf(parts[g])) = Cardinality(active[g])

(***************************************************************************)
(* C16.  For each attachment: http.Get is issued only if the media type is *)
(* supported; io.ReadAll only once http.Get has returned without error;    *)
(* UploadFile only once the download has succeeded, a success status and   *)
(* no error of io.ReadAll; GetFile only after UploadFile has returned a    *)
(* file, or after a sleep; a reference is appended only in the step where  *)
(* GetFile reports the active state.  The references of a turn are those   *)
(* of its own message's active attachments, one each.                      *)
(* Stated as written: a download that was answered with a non-success      *)
(* status has not succeeded.  The handler uploads its body all the same    *)
(* (main.go:127-147).                                                      *)
(***************************************************************************)
C16_HandshakeIsGated ==
    /\ [](\A g \in Goroutines : Handshake(g))
    /\ [][ \A g \in Goroutines :
             /\ (pc'[g] = "read" /\ pc[g] # "read") =>
                   pc[g] = "download" /\ m'[g] = m[g] /\ idx'[g] = idx[g]
             /\ (pc'[g] = "upload" /\ pc[g] # "upload") =>
                   pc[g] = "read" /\ m'[g] = m[g] /\ idx'[g] = idx[g]
             /\ (pc'[g] = "poll" /\ pc[g] # "poll") =>
                   pc[g] \in {"upload", "sleep"} /\ m'[g] = m[g] /\ idx'[g] = idx[g]
             /\ (pc'[g] = "sleep" /\ pc[g] # "sleep") => pc[g] = "poll"
             /\ (m'[g] = m[g] /\ parts'[g] # parts[g]
                              /\ RefsOf(parts'[g]) # RefsOf(parts[g])) =>
                   /\ pc[g] = "poll"
                   /\ file[g].ready
                   /\ active'[g] = active[g] \cup {idx[g]}
                   /\ RefsOf(parts'[g]) =
                         Append(RefsOf(parts[g]), FileData(FileURI(m[g].ID, idx[g])))
            ]_vars

\* hist holds the turn of a message before the turn of a message that arrived
\* earlier
Inverted(hist) ==
    \E i, j \in DOMAIN Turns(hist) : i < j /\ Turns(hist)[i].msg > Turns(hist)[j].msg

(***************************************************************************)
(* C17.  Nothing orders the turns of concurrently handled messages: a      *)
(* handler that has assembled its parts can make its SendMessage call      *)
(* whatever the handlers of other messages are doing, an earlier message's *)
(* handler still busy with an attachment included; so a later message's    *)
(* turn can enter the session's history before an earlier message's        *)
(* (C17_Witness).                                                          *)
(***************************************************************************)
C17_SendWaitsForNoOtherHandler ==
    \A g \in Goroutines : pc[g] = "typing" => ENABLED SendMessage(g)

\* the turn of a message that arrived later is in the current session's
\* history before the turn of an earlier message, whose handler was busy with
\* an attachment that gave a reference
C17_Witness ==
    /\ Inverted(sessions[chatSession].History)
    /\ \E g, h \in Goroutines :
          /\ m[g].ID > 0 /\ m[g].ID < m[h].ID
          /\ Called(g) /\ Called(h)
          /\ active[g] # {}
          /\ Turns(sessions[chatSession].History) =
                << UserContent(m[h].ID), UserContent(m[g].ID) >>

(***************************************************************************)
(* C18.  The session a turn goes to is the one chatSession names in the    *)
(* step where SendMessage is called: the newest session, started by the    *)
(* last reset that has assigned chatSession, however long before that step *)
(* the message arrived.  The turn is appended to that session's history    *)
(* and no other session changes.                                           *)
(***************************************************************************)
C18_SessionIsReadAtSend ==
    [][ \A g \in Goroutines :
          (pc[g] = "typing" /\ pc'[g] = "sending") =>
              /\ cs'[g] = chatSession
              /\ chatSession = Len(sessions)
              /\ sessions'[chatSession].History =
                    Append(sessions[chatSession].History, UserContent(m[g].ID))
              /\ \A k \in DOMAIN sessions : k # chatSession => sessions'[k] = sessions[k]
              /\ Len(sessions') = Len(sessions)
      ]_vars

\* a message with an attachment arrived before another message whose turn was
\* sent before the reset; its own turn, sent after the reset, went to the
\* session the reset started and is in no other
C18_Witness ==
    \E g, h \in Goroutines :
        /\ commands = 1
        /\ chatSession = 2
        /\ m[g].ID > 0 /\ m[g].ID < m[h].ID
        /\ m[h].ID \in sentBefore
        /\ m[g].ID \notin sentBefore
        /\ active[g] # {}
        /\ cs[g] = 2
        /\ CountIn(sessions[2].History, m[g].ID) = 1
        /\ CountIn(sessions[1].History, m[g].ID) = 0

\* the handling of g is over in one of its four ways
Discarded(g) ==
    /\ result[g] \in {"self", "empty"}
    /\ out[g] = <<>>
    /\ ~Called(g)
OneErrorNotice(g) ==
    /\ result[g] = "error"
    /\ Len(MessagesOf(out[g])) = 1
    /\ MessagesOf(out[g])[1].type = "error"
OneFallbackNotice(g) ==
    /\ result[g] = "fallback"
    /\ MessagesOf(out[g]) = << [type |-> "fallback"] >>
AllChunksSent(g) ==
    /\ result[g] = "chunks"
    /\ MessagesOf(out[g]) # <<>>
    /\ \A k \in DOMAIN MessagesOf(out[g]) : MessagesOf(out[g])[k].type = "chunk"
    /\ Join(ChunksOf(out[g])) = ReplyOf(resp[g])
    /\ responseText[g] = s_empty

\* the number of the four ways that hold
Outcomes(g) ==
    Cardinality({ w \in {"discarded", "error", "fallback", "chunks"} :
                    \/ w = "discarded" /\ Discarded(g)
                    \/ w = "error" /\ OneErrorNotice(g)
                    \/ w = "fallback" /\ OneFallbackNotice(g)
                    \/ w = "chunks" /\ AllChunksSent(g) })

(***************************************************************************)
(* C19.  When every call returns, a handling that has begun gets to its    *)
(* end unless it is polling a file that never gets ready; at its end       *)
(* exactly one of the four outcomes holds: nothing sent, one error notice, *)
(* one fallback notice, all chunks sent.  A handler leaves the poll loop   *)
(* only on an answer of a file that gets ready (active or query error),    *)
(* and with a reference only if the answer was active; each chunk sent     *)
(* leaves a strictly shorter text to send.                                 *)
(***************************************************************************)
C19_HandlingTerminates ==
    /\ \A g \in Goroutines :
          (pc[g] \notin {"idle", "done"})
              ~> (pc[g] = "done" \/ (pc[g] \in {"poll", "sleep"} /\ ~file[g].ready))
    /\ [](\A g \in Goroutines : pc[g] = "done" => Outcomes(g) = 1)
    /\ [][ \A g \in Goroutines :
             /\ (pc[g] = "poll" /\ pc'[g] \notin {"poll", "sleep"}) =>
                   /\ file[g].ready
                   /\ RefsOf(parts'[g]) # RefsOf(parts[g]) => idx[g] \in active'[g]
             /\ (pc[g] = "sleep") => pc'[g] \in {"sleep", "poll"}
             /\ (pc[g] = "chunk" /\ <<pc[g], out[g]>> # <<pc'[g], out'[g]>>) =>
                   Len(responseText'[g]) < Len(responseText[g])
         ]_vars

\* a handling that polled a file to the active state has sent a reply of
\* three chunks and is over
C19_Witness ==
    \E g \in Goroutines :
        /\ pc[g] = "done"
        /\ active[g] # {}
        /\ AllChunksSent(g)
        /\ Len(ChunksOf(out[g])) = 3

====
